---- MODULE Spec2Model ----
(***************************************************************************)
(* linehaul/server.py: the TCP ingestion pipeline.  Connection handlers    *)
(* frame and decode lines and push events on a bounded queue; the sender   *)
(* drains the queue in size/time bounded batches, groups them by day and   *)
(* fans out one retrying send task per group.                              *)
(***************************************************************************)
EXTENDS Integers, Sequences, FiniteSets, TLC

(***************************************************************************)
(* Bounds of the model.                                                    *)
(***************************************************************************)
MaxItems == 3          \* events handed to compute_batches in the pure runs
MaxBytes == 9          \* bytes the peers send, all connections together
MaxFails == 2          \* failures of bq.insert_all, all send tasks together
MaxLineSize == 3       \* max_line_size
QSize == 1             \* qsize
BatchSize == 2         \* batch_size
BatchTimeout == 2      \* batch_timeout, in clock ticks
RetryMaxAttempts == 2  \* retry_max_attempts
RetryMultiplier == 1   \* retry_multiplier, in units of waiting time
RetryMaxWait == 3      \* retry_max_wait, in the same units
MaxAttemptNumber == 4  \* attempt numbers the backoff is computed for
NumYears == 2          \* calendar years the timestamps range over, from 2019 on

Years == 2019..(2019 + NumYears - 1)

FirstYear == CHOOSE y \in Years : \A z \in Years : y <= z

Min(a, b) == IF a <= b THEN a ELSE b

(***************************************************************************)
(* Timestamps (arrow.Arrow): calendar date and hour of day.                *)
(***************************************************************************)
IsLeap(y) == (y % 4 = 0 /\ y % 100 # 0) \/ y % 400 = 0

DaysInMonth(y, m) ==
    IF m = 2 THEN (IF IsLeap(y) THEN 29 ELSE 28)
    ELSE IF m \in {4, 6, 9, 11} THEN 30 ELSE 31

Dates == { d \in [y : Years, m : 1..12, d : 1..31] : d.d <= DaysInMonth(d.y, d.m) }

Hours == {0, 23}

Timestamp(date, h) == [y |-> date.y, m |-> date.m, d |-> date.d, h |-> h]

DateOf(ts) == [y |-> ts.y, m |-> ts.m, d |-> ts.d]

RECURSIVE DaysBefore(_, _)
DaysBefore(y, m) == IF m = 1 THEN 0 ELSE DaysBefore(y, m - 1) + DaysInMonth(y, m - 1)

DayOfYear(ts) == DaysBefore(ts.y, ts.m) + ts.d

RECURSIVE DaysBeforeYear(_)
DaysBeforeYear(y) ==
    IF y = FirstYear THEN 0
    ELSE DaysBeforeYear(y - 1) + (IF IsLeap(y - 1) THEN 366 ELSE 365)

\* arrow's float_timestamp, counted from the first instant of FirstYear
FloatTimestamp(ts) == ((DaysBeforeYear(ts.y) + DayOfYear(ts) - 1) * 24 + ts.h) * 3600

(***************************************************************************)
(* Text: a string is a sequence of characters; numbers format to digits.   *)
(***************************************************************************)
RECURSIVE Digits(_)
Digits(n) == IF n < 10 THEN <<n>> ELSE Digits(n \div 10) \o <<n % 10>>

Pad4(n) == <<(n \div 1000) % 10, (n \div 100) % 10, (n \div 10) % 10, n % 10>>

\* Python's str < str
StrLess(a, b) ==
    \E i \in 1..(Min(Len(a), Len(b)) + 1) :
        /\ \A j \in 1..(i - 1) : a[j] = b[j]
        /\ \/ i > Len(a) /\ i <= Len(b)
           \/ i <= Len(a) /\ i <= Len(b) /\ a[i] < b[i]

(***************************************************************************)
(* Non I/O functions.                                                      *)
(***************************************************************************)
\* a key that leaves the year out
extract_item_date_noyear(item) ==
    Digits(item.timestamp.m) \o Digits(DayOfYear(item.timestamp))

\* a key of month and day of month, unpadded
extract_item_date_dom(item) ==
    Pad4(item.timestamp.y) \o Digits(item.timestamp.m) \o Digits(item.timestamp.d)

\* item.timestamp.format("YYYYMDDD"): YYYY the year on four digits, M the month
\* unpadded, DDD the day of the year unpadded
extract_item_date(item) ==
    Pad4(item.timestamp.y) \o Digits(item.timestamp.m) \o Digits(DayOfYear(item.timestamp))

\* sorted(all_items, key=extract_item_date): a stable sort
RECURSIVE InsertSorted(_, _)
InsertSorted(s, x) ==
    IF s = <<>> THEN <<x>>
    ELSE IF StrLess(extract_item_date(x), extract_item_date(s[Len(s)]))
         THEN Append(InsertSorted(SubSeq(s, 1, Len(s) - 1), x), s[Len(s)])
         ELSE Append(s, x)

RECURSIVE Sorted(_)
Sorted(s) ==
    IF s = <<>> THEN <<>>
    ELSE InsertSorted(Sorted(SubSeq(s, 1, Len(s) - 1)), s[Len(s)])

\* itertools.groupby(s, extract_item_date): the runs of consecutive equal keys
RECURSIVE GroupBy(_)
GroupBy(s) ==
    IF s = <<>> THEN <<>>
    ELSE LET rest == GroupBy(SubSeq(s, 1, Len(s) - 1))
             x == s[Len(s)]
         IN  IF rest # <<>> /\ extract_item_date(rest[Len(rest)][1]) = extract_item_date(x)
             THEN [rest EXCEPT ![Len(rest)] = Append(@, x)]
             ELSE Append(rest, <<x>>)

\* _cattr.unstructure(item): the timestamp becomes its float_timestamp
Unstructure(item) == [timestamp |-> FloatTimestamp(item.timestamp), body |-> item.body]

RECURSIVE SumLen(_, _)
SumLen(groups, n) == IF n = 0 THEN 0 ELSE SumLen(groups, n - 1) + Len(groups[n])

\* the groups without the sort
Groups_unsorted(all_items) == GroupBy(all_items)

Groups(all_items) == GroupBy(Sorted(all_items))

\* compute_batches(all_items): one (key, records) pair per group; uuid4 draws
\* the identifiers, here the unused numbers from firstId on
compute_batches(all_items, firstId) ==
    LET groups == Groups(all_items)
    IN  [g \in 1..Len(groups) |->
            <<extract_item_date(groups[g][1]),
              [r \in 1..Len(groups[g]) |->
                  [insertId |-> firstId + SumLen(groups, g - 1) + r - 1,
                   json |-> Unstructure(groups[g][r])]]>>]

(***************************************************************************)
(* Decoding.  A byte is a character; "U" is a byte no UTF-8 text holds,    *)
(* NL the line terminator.  After the token, a line is one character:      *)
(* "a", "b" and "c" are well-formed syslog envelopes around well-formed    *)
(* download events ("a" and "c" of one day, "b" of another), "m" is a      *)
(* well-formed envelope around something else, "x" no envelope at all.     *)
(***************************************************************************)
NL == "\n"

Token == <<"T">>

None == [kind |-> "None"]

Download(c) ==
    [kind |-> "Download",
     timestamp |-> IF c = "a" THEN [y |-> 2019, m |-> 1, d |-> 15, h |-> 0]
                   ELSE IF c = "b" THEN [y |-> 2019, m |-> 11, d |-> 5, h |-> 23]
                   ELSE [y |-> 2019, m |-> 1, d |-> 15, h |-> 23],
     body |-> c]

IsEvent(x) == x.kind = "Download" /\ "timestamp" \in DOMAIN x

Returns(v) == [exc |-> "none", val |-> v]

Raises(e) == [exc |-> e, val |-> None]

\* bytes.decode("utf8")
Utf8Decode(line) ==
    IF \E i \in 1..Len(line) : line[i] = "U" THEN Raises("UnicodeDecodeError")
    ELSE Returns(line)

\* linehaul.syslog.parser.parse
SyslogParse(text) ==
    IF Len(text) = 1 /\ text[1] \in {"a", "b", "c", "m"}
    THEN Returns([kind |-> "SyslogMessage", message |-> text[1]])
    ELSE Raises("ValueError")

\* linehaul.events.parser.parse
EventParse(message) ==
    IF message \in {"a", "b", "c"} THEN Returns(Download(message))
    ELSE Raises("ValueError")

StartsWith(text, prefix) ==
    Len(text) >= Len(prefix) /\ SubSeq(text, 1, Len(prefix)) = prefix

\* parse_line returning the syslog message instead of the event parsed from it
parse_line_msg(line, token) ==
    LET text == Utf8Decode(line)
    IN  IF text.exc # "none" THEN text
        ELSE IF ~StartsWith(text.val, token) THEN Returns(None)
        ELSE LET msg == SyslogParse(SubSeq(text.val, Len(token) + 1, Len(text.val)))
             IN  IF msg.exc = "ValueError" THEN Returns(None)
                 ELSE IF EventParse(msg.val.message).exc = "ValueError" THEN Returns(None)
                 ELSE msg

parse_line(line, token) ==
    LET text == Utf8Decode(line)
    IN  IF text.exc # "none" THEN text
        ELSE IF ~StartsWith(text.val, token) THEN Returns(None)
        ELSE LET msg == SyslogParse(SubSeq(text.val, Len(token) + 1, Len(text.val)))
             IN  IF msg.exc = "ValueError" THEN Returns(None)
                 ELSE LET event == EventParse(msg.val.message)
                      IN  IF event.exc = "ValueError" THEN Returns(None) ELSE event

(***************************************************************************)
(* linehaul.protocol.LineReceiver: the buffer is cut at each terminator,   *)
(* the callback decodes each line, what it returns that is not None is     *)
(* collected.  A line longer than max_line_size, terminated or not, raises *)
(* BufferTooLargeError; an exception of the callback passes through.       *)
(***************************************************************************)
IndexOf(s, ch) ==
    IF \E i \in 1..Len(s) : s[i] = ch
    THEN CHOOSE i \in 1..Len(s) : s[i] = ch /\ \A j \in 1..(i - 1) : s[j] # ch
    ELSE 0

RECURSIVE Frame(_, _)
Frame(buf, results) ==
    LET found == IndexOf(buf, NL)
    IN  IF found = 0
        THEN IF Len(buf) > MaxLineSize
             THEN [exc |-> "BufferTooLargeError", results |-> <<>>, buffer |-> buf]
             ELSE [exc |-> "none", results |-> results, buffer |-> buf]
        ELSE IF found > MaxLineSize
        THEN [exc |-> "BufferTooLargeError", results |-> <<>>, buffer |-> buf]
        ELSE LET line == parse_line(SubSeq(buf, 1, found - 1), Token)
                 rest == SubSeq(buf, found + 1, Len(buf))
             IN  IF line.exc # "none"
                 THEN [exc |-> line.exc, results |-> <<>>, buffer |-> rest]
                 ELSE Frame(rest, IF line.val # None THEN Append(results, line.val)
                                                     ELSE results)

recieve_data(buf, data) == Frame(buf \o data, <<>>)

\* LineReceiver.close(): what is left in the buffer is a truncated line
lr_close(buf) == IF Len(buf) > 0 THEN "TruncatedLineError" ELSE "none"

(***************************************************************************)
(* The peers.  What one receive_some can return on connection c1: whole    *)
(* lines of every kind (a good one, a wrong token, no envelope, no event,  *)
(* no UTF-8), a line split over two chunks, two lines in one chunk, and a  *)
(* line with no terminator that is longer than max_line_size.  The peer of *)
(* c2 sends good lines only, of a content c1 never sends.                  *)
(***************************************************************************)
Conns == {"c1", "c2"}

Chunks(c) ==
    IF c = "c1"
    THEN { <<"T", "a", NL>>, <<"T", "b", NL>>, <<"T", "a">>, <<NL>>,
           <<"x", NL>>, <<"T", "x", NL>>, <<"T", "m", NL>>, <<"T", "U", NL>>,
           <<"T", "a", NL, "T", "b", NL>>,
           [i \in 1..(MaxLineSize + 1) |-> "a"] }
    ELSE { <<"T", "c", NL>> }

VARIABLES
    hpc,        \* per connection: where handle_connection is
    buffer,     \* per connection: the LineReceiver's buffer
    pend,       \* per connection: the events of the current chunk not yet put
    nbytes,     \* bytes received so far, all connections together
    exit,       \* per connection: why the loop was left
    closes,     \* per connection: calls of stream.aclose()
    queue,      \* trio.Queue: the items held
    putWait,    \* trio.Queue: the parked put calls, first come first
    dpc,        \* where sender is
    batch,      \* sender: the events accumulated in this cycle
    elapsed,    \* clock ticks since move_on_after(batch_timeout) was entered
    lastCause,  \* how the last accumulation ended
    tasks,      \* the send_batch tasks started, in start order
    nextId,     \* the identifiers uuid4 has not drawn yet start here
    nfails,     \* failures of bq.insert_all so far
    cancelled,  \* the server's nursery is cancelled
    all_items,  \* pure runs: the input of compute_batches
    batches,    \* pure runs: what compute_batches yielded
    slow        \* the connections whose stream takes longer to close than
                \* the grace period of handle_connection

hvars == <<hpc, buffer, pend, nbytes, exit, closes>>
qvars == <<queue, putWait>>
dvars == <<dpc, batch, elapsed, lastCause, tasks, nextId, nfails>>
pvars == <<all_items, batches>>
evars == <<slow>>
vars == <<hvars, qvars, dvars, cancelled, pvars, evars>>

Started ==
    /\ hpc = [c \in Conns |-> "none"]
    /\ buffer = [c \in Conns |-> <<>>]
    /\ pend = [c \in Conns |-> <<>>]
    /\ nbytes = 0
    /\ exit = [c \in Conns |-> "none"]
    /\ closes = [c \in Conns |-> 0]
    /\ queue = <<>>
    /\ putWait = <<>>
    /\ dpc = "accum"
    /\ batch = <<>>
    /\ elapsed = 0
    /\ lastCause = "none"
    /\ tasks = <<>>
    /\ nextId = 1
    /\ nfails = 0
    /\ cancelled = FALSE
    /\ all_items = <<>>
    /\ batches = <<>>

\* the streams close in time
Init == Started /\ slow = {}

\* the streams close in time or do not
InitClosing == Started /\ slow \in SUBSET Conns

(***************************************************************************)
(* handle_connection                                                       *)
(***************************************************************************)
\* trio.serve_tcp accepts a connection and starts its handler
Accept(c) ==
    /\ ~cancelled
    /\ hpc[c] = "none"
    /\ hpc' = [hpc EXCEPT ![c] = "recv"]
    /\ UNCHANGED <<buffer, pend, nbytes, exit, closes, qvars, dvars, cancelled, pvars, evars>>

\* the exceptions the try statement of handle_connection catches
Caught(e) == e \in {"BufferTooLargeError", "TruncatedLineError"}

\* how the handler leaves its loop when e is raised in it ("none": the break)
ExitOf(e) ==
    IF e = "none" THEN "eof"
    ELSE IF e = "BufferTooLargeError" THEN "oversized"
    ELSE IF e = "TruncatedLineError" THEN "truncated"
    ELSE e

Escapes(e) == e # "none" /\ ~Caught(e)

\* An exception that leaves a task (the handler of connection c, or send task
\* i; "" and 0 for neither) reaches the server's nursery, which cancels every
\* task in it: each handler still running closes its stream on the way out,
\* the parked puts are withdrawn, sender and the send tasks end
Live(pc) == pc \in {"recv", "put", "putwait"}

Unwound(pc) == IF Live(pc) \/ pc = "closing" THEN "done" ELSE pc

NurseryCancelled(c, i, e) ==
    /\ cancelled' = TRUE
    /\ hpc' = [k \in Conns |-> IF k = c THEN "raised" ELSE Unwound(hpc[k])]
    /\ exit' = [k \in Conns |->
            IF k = c THEN ExitOf(e)
            ELSE IF Live(hpc[k]) THEN "cancelled" ELSE exit[k]]
    /\ closes' = [k \in Conns |->
            IF k = c \/ Live(hpc[k]) THEN closes[k] + 1 ELSE closes[k]]
    /\ putWait' = <<>>
    /\ dpc' = "cancelled"
    /\ tasks' = [k \in 1..Len(tasks) |->
            IF k = i
            THEN [tasks[k] EXCEPT !.state = "raised", !.fails = @ + 1, !.exc = e]
            ELSE IF tasks[k].state \in {"attempt", "sleep"}
            THEN [tasks[k] EXCEPT !.state = "cancelled"] ELSE tasks[k]]

\* leaving without the finally clause: the stream is left open
Leave_noclose(c, e) ==
    IF e # "none" /\ e \notin {"BufferTooLargeError", "TruncatedLineError"}
    THEN NurseryCancelled(c, 0, e)
    ELSE /\ hpc' = [hpc EXCEPT ![c] = "done"]
         /\ exit' = [exit EXCEPT ![c] = ExitOf(e)]
         /\ UNCHANGED <<closes, cancelled, putWait, dpc, tasks>>

\* the handler of c leaves its loop by e; finally: with trio.move_on_after(30):
\* await stream.aclose(), which ends, or is still going on when the grace
\* period is over ("closing")
Leave(c, e) ==
    IF Escapes(e)
    THEN NurseryCancelled(c, 0, e)
    ELSE /\ hpc' = [hpc EXCEPT ![c] = IF c \in slow THEN "closing" ELSE "done"]
         /\ exit' = [exit EXCEPT ![c] = ExitOf(e)]
         /\ closes' = [closes EXCEPT ![c] = @ + 1]
         /\ UNCHANGED <<cancelled, putWait, dpc, tasks>>

\* the grace period is over before aclose() is: move_on_after cancels it,
\* takes the cancellation in, and handle_connection returns
GraceExpires_raises(c) ==
    /\ ~cancelled
    /\ hpc[c] = "closing"
    /\ NurseryCancelled(c, 0, "TooSlowError")
    /\ UNCHANGED <<buffer, pend, nbytes, queue, batch, elapsed, lastCause, nextId,
                   nfails, pvars, evars>>

GraceExpires(c) ==
    /\ ~cancelled
    /\ hpc[c] = "closing"
    /\ hpc' = [hpc EXCEPT ![c] = "done"]
    /\ UNCHANGED <<buffer, pend, nbytes, exit, closes, qvars, dvars, cancelled, pvars, evars>>

\* receive_some returned data (empty at end of stream); the LineReceiver is
\* fed, and closed after an empty chunk
Received(c, data) ==
    LET r == recieve_data(buffer[c], data)
    IN  /\ nbytes' = nbytes + Len(data)
        /\ buffer' = [buffer EXCEPT ![c] = r.buffer]
        /\ IF r.exc # "none"
           THEN /\ Leave(c, r.exc)
                /\ UNCHANGED pend
           ELSE IF r.results # <<>>
           THEN /\ hpc' = [hpc EXCEPT ![c] = "put"]
                /\ pend' = [pend EXCEPT ![c] = r.results]
                /\ UNCHANGED <<exit, closes, cancelled, putWait, dpc, tasks>>
           ELSE IF data = <<>>
           THEN /\ Leave(c, lr_close(r.buffer))
                /\ UNCHANGED pend
           ELSE /\ hpc' = [hpc EXCEPT ![c] = "recv"]
                /\ UNCHANGED <<pend, exit, closes, cancelled, putWait, dpc, tasks>>
        /\ UNCHANGED <<queue, batch, elapsed, lastCause, nextId, nfails, pvars, evars>>

Receive(c, data) ==
    /\ ~cancelled
    /\ hpc[c] = "recv"
    /\ nbytes + Len(data) <= MaxBytes
    /\ Received(c, data)

\* receive_some raised BrokenStreamError: data = b""
ReceiveBroken(c) ==
    /\ ~cancelled
    /\ hpc[c] = "recv"
    /\ Received(c, <<>>)

\* q.put(event) is over and p is what the for loop has left: the next put, or,
\* past the loop, the next receive_some (the chunk was not empty: an empty
\* chunk completes no line, and the loop had nothing to put)
AfterPut(c, p) == IF p # <<>> THEN "put" ELSE "recv"

\* the events of a chunk put last first
Put_reversed(c) ==
    /\ ~cancelled
    /\ hpc[c] = "put"
    /\ Len(queue) < QSize
    /\ queue' = Append(queue, pend[c][Len(pend[c])])
    /\ pend' = [pend EXCEPT ![c] = SubSeq(@, 1, Len(@) - 1)]
    /\ hpc' = [hpc EXCEPT ![c] = IF Len(pend[c]) > 1 THEN "put" ELSE "recv"]
    /\ UNCHANGED <<putWait, buffer, nbytes, exit, closes, dvars, cancelled, pvars, evars>>

\* q.put_nowait(event) with the WouldBlock ignored: the item is let go when
\* the queue is full
Put_drop(c) ==
    /\ ~cancelled
    /\ hpc[c] = "put"
    /\ queue' = IF Len(queue) < QSize THEN Append(queue, Head(pend[c])) ELSE queue
    /\ pend' = [pend EXCEPT ![c] = Tail(@)]
    /\ hpc' = [hpc EXCEPT ![c] = IF Tail(pend[c]) # <<>> THEN "put" ELSE "recv"]
    /\ UNCHANGED <<putWait, buffer, nbytes, exit, closes, dvars, cancelled, pvars, evars>>

\* await q.put(event): the item is appended when there is room, else the call
\* parks at the end of the queue's put waiters
Put(c) ==
    /\ ~cancelled
    /\ hpc[c] = "put"
    /\ IF Len(queue) < QSize
       THEN /\ queue' = Append(queue, Head(pend[c]))
            /\ pend' = [pend EXCEPT ![c] = Tail(@)]
            /\ hpc' = [hpc EXCEPT ![c] = AfterPut(c, Tail(pend[c]))]
            /\ UNCHANGED putWait
       ELSE /\ putWait' = Append(putWait, [conn |-> c, val |-> Head(pend[c])])
            /\ hpc' = [hpc EXCEPT ![c] = "putwait"]
            /\ UNCHANGED <<queue, pend>>
    /\ UNCHANGED <<buffer, nbytes, exit, closes, dvars, cancelled, pvars, evars>>

(***************************************************************************)
(* send_batch and actually_send_batch                                      *)
(***************************************************************************)
\* what bq.insert_all can raise within the attempt: trio.fail_after(api_timeout)
\* cuts it (TooSlowError), the stream to the sink breaks (BrokenStreamError),
\* or anything else goes wrong
SinkErrors == {"TooSlowError", "BrokenStreamError", "OtherError"}

\* retrying timeouts only
ShouldRetry_timeouts(e) == e \in {"TooSlowError"}

\* retry_if_exception_type((trio.TooSlowError, trio.BrokenStreamError))
ShouldRetry(e) == e \in {"TooSlowError", "BrokenStreamError"}

RECURSIVE Pow2(_)
Pow2(n) == IF n = 0 THEN 1 ELSE 2 * Pow2(n - 1)

\* the backoff without its cap
wait_exponential_nocap(n) == RetryMultiplier * Pow2(n)

\* tenacity.wait_exponential(multiplier=retry_multiplier, max=retry_max_wait):
\* the wait after attempt n is multiplier * 2^n, and at most max
wait_exponential(n) == Min(RetryMaxWait, RetryMultiplier * Pow2(n))

\* stopping one attempt early
ShouldStop_early(attempts) == attempts + 1 >= RetryMaxAttempts

\* stopping one attempt late
ShouldStop_late(attempts) == attempts > RetryMaxAttempts

\* tenacity.stop_after_attempt(retry_max_attempts)
ShouldStop(attempts) == attempts >= RetryMaxAttempts

\* send_batch with the except trio.TooSlowError clause only
Swallowed_timeouts(e) == e = "TooSlowError"

\* send_batch: except trio.TooSlowError, except Exception
Swallowed(e) == e = "TooSlowError" \/ e \in {"BrokenStreamError", "OtherError"}

\* bq.insert_all returned within api_timeout
SinkOk(i) ==
    /\ ~cancelled
    /\ i \in 1..Len(tasks)
    /\ tasks[i].state = "attempt"
    /\ tasks' = [tasks EXCEPT ![i].state = "sent", ![i].oks = @ + 1]
    /\ UNCHANGED <<hvars, qvars, dpc, batch, elapsed, lastCause, nextId, nfails,
                   cancelled, pvars, evars>>

\* the attempt raised e: tenacity sleeps for wait_exponential (slept: the waits
\* of the task so far) and tries again when e is one it retries and attempts
\* are left, else e is raised again (reraise=True) into
\* send_batch, which logs it, drops the batch and returns
SinkFail(i, e) ==
    /\ ~cancelled
    /\ i \in 1..Len(tasks)
    /\ tasks[i].state = "attempt"
    /\ nfails < MaxFails
    /\ nfails' = nfails + 1
    /\ IF ShouldRetry(e) /\ ~ShouldStop(tasks[i].attempts)
       THEN /\ tasks' = [tasks EXCEPT ![i].fails = @ + 1, ![i].state = "sleep",
                      ![i].slept = Append(@, wait_exponential(tasks[i].attempts))]
            /\ UNCHANGED <<hvars, putWait, dpc, cancelled>>
       ELSE IF Swallowed(e)
       THEN /\ tasks' = [tasks EXCEPT ![i].fails = @ + 1, ![i].exc = e,
                                      ![i].state = "dropped"]
            /\ UNCHANGED <<hvars, putWait, dpc, cancelled>>
       ELSE /\ NurseryCancelled("", i, e)
            /\ UNCHANGED <<buffer, pend, nbytes>>
    /\ UNCHANGED <<queue, batch, elapsed, lastCause, nextId, pvars, evars>>

\* the records built anew for the next attempt, with identifiers not yet drawn
Wake_regenerate(i) ==
    /\ ~cancelled
    /\ i \in 1..Len(tasks)
    /\ tasks[i].state = "sleep"
    /\ tasks' = [tasks EXCEPT ![i].state = "attempt", ![i].attempts = @ + 1,
                              ![i].batch = [r \in 1..Len(@) |->
                                               [@[r] EXCEPT !.insertId = nextId + r - 1]]]
    /\ UNCHANGED <<hvars, qvars, dpc, batch, elapsed, lastCause, nextId, nfails,
                   cancelled, pvars, evars>>

\* the backoff sleep is over: the next attempt
Wake(i) ==
    /\ ~cancelled
    /\ i \in 1..Len(tasks)
    /\ tasks[i].state = "sleep"
    /\ tasks' = [tasks EXCEPT ![i].state = "attempt", ![i].attempts = @ + 1]
    /\ UNCHANGED <<hvars, qvars, dpc, batch, elapsed, lastCause, nextId, nfails,
                   cancelled, pvars, evars>>

(***************************************************************************)
(* sender                                                                  *)
(***************************************************************************)
\* the loop going on while len(batch) <= batch_size
AccumulationDone_late(b) == Len(b) > BatchSize

\* while len(batch) < batch_size
AccumulationDone(b) == Len(b) >= BatchSize

\* trio.move_on_after(batch_timeout): the deadline has passed
DeadlinePassed(e) == e >= BatchTimeout

\* nursery.start_soon(partial(send_batch, ...)): the task runs its first attempt
NewTasks(bs) ==
    [i \in 1..Len(bs) |->
        [key |-> bs[i][1], batch |-> bs[i][2], state |-> "attempt",
         attempts |-> 1, fails |-> 0, oks |-> 0, exc |-> "none", slept |-> <<>>]]

\* a send task started at the end of every cycle, whatever was accumulated
Dispatch_always(b, cause) ==
    /\ lastCause' = cause
    /\ tasks' = tasks \o NewTasks(IF b = <<>> THEN << <<"", <<>>>> >>
                                   ELSE compute_batches(b, nextId))
    /\ nextId' = nextId + Len(b)
    /\ batch' = <<>>
    /\ elapsed' = 0

\* the accumulation b is over: compute_batches, one send task per batch, and
\* the next cycle starts
Dispatch(b, cause) ==
    /\ lastCause' = cause
    /\ tasks' = tasks \o NewTasks(compute_batches(b, nextId))
    /\ nextId' = nextId + Len(b)
    /\ batch' = <<>>
    /\ elapsed' = 0

\* the sender joining the send tasks of a cycle before it takes up the next
CanGet_waits ==
    /\ ~cancelled
    /\ dpc = "accum"
    /\ ~DeadlinePassed(elapsed)
    /\ ~AccumulationDone(batch)
    /\ queue # <<>> \/ putWait # <<>>
    /\ \A i \in 1..Len(tasks) : tasks[i].state \notin {"attempt", "sleep"}

\* the sender is in its accumulation loop before the deadline and q.get() has
\* something to return: a queued item, or the item of a parked put
CanGet ==
    /\ ~cancelled
    /\ dpc = "accum"
    /\ ~DeadlinePassed(elapsed)
    /\ ~AccumulationDone(batch)
    /\ queue # <<>> \/ putWait # <<>>

\* batch.append(await q.get()): the first parked put, if any, is let in and
\* its task rescheduled, and the head of the queue is taken
Get ==
    /\ CanGet
    /\ LET data == IF putWait # <<>> THEN Append(queue, putWait[1].val) ELSE queue
           b == Append(batch, Head(data))
       IN  /\ queue' = Tail(data)
           /\ IF putWait # <<>>
              THEN LET c == putWait[1].conn
                   IN  /\ putWait' = Tail(putWait)
                       /\ pend' = [pend EXCEPT ![c] = Tail(@)]
                       /\ hpc' = [hpc EXCEPT ![c] = AfterPut(c, Tail(pend[c]))]
              ELSE UNCHANGED <<putWait, pend, hpc>>
           /\ IF AccumulationDone(b)
              THEN Dispatch(b, "full")
              ELSE /\ batch' = b
                   /\ UNCHANGED <<elapsed, lastCause, tasks, nextId>>
    /\ UNCHANGED <<buffer, nbytes, exit, closes, dpc, nfails, cancelled, pvars, evars>>

\* the deadline of move_on_after(batch_timeout) has passed in the sender's
\* accumulation loop
CanTimeout ==
    /\ ~cancelled
    /\ dpc = "accum"
    /\ DeadlinePassed(elapsed)

\* a timed-out accumulation thrown away: the next cycle starts with nothing sent
Timeout_discard ==
    /\ CanTimeout
    /\ lastCause' = "timeout"
    /\ batch' = <<>>
    /\ elapsed' = 0
    /\ UNCHANGED <<hvars, qvars, dpc, tasks, nextId, nfails, cancelled, pvars, evars>>

\* the deadline passes while the sender waits in q.get(): cancelled_caught
Timeout ==
    /\ CanTimeout
    /\ Dispatch(batch, "timeout")
    /\ UNCHANGED <<hvars, qvars, dpc, nfails, cancelled, pvars, evars>>

\* the clock
Tick ==
    /\ ~cancelled
    /\ dpc = "accum"
    /\ ~DeadlinePassed(elapsed)
    /\ elapsed' = elapsed + 1
    /\ UNCHANGED <<hvars, qvars, dpc, batch, lastCause, tasks, nextId, nfails,
                   cancelled, pvars, evars>>

Next ==
    \/ \E c \in Conns : Accept(c)
    \/ \E c \in Conns : \E data \in Chunks(c) \cup {<<>>} : Receive(c, data)
    \/ \E c \in Conns : ReceiveBroken(c)
    \/ \E c \in Conns : Put(c)
    \/ Get
    \/ Timeout
    \/ Tick
    \/ \E i \in 1..Len(tasks) : SinkOk(i)
    \/ \E i \in 1..Len(tasks), e \in SinkErrors : SinkFail(i, e)
    \/ \E i \in 1..Len(tasks) : Wake(i)

Spec == Init /\ [][Next]_vars

\* The pipeline in front of a sink that answers every call.  trio runs every
\* task that can run: a put that can proceed or park does, the deadline of the
\* accumulation is acted on, and a sender that finds the queue non-empty again
\* and again takes from it
NextHealthy ==
    \/ \E c \in Conns : Accept(c)
    \/ \E c \in Conns : \E data \in Chunks(c) \cup {<<>>} : Receive(c, data)
    \/ \E c \in Conns : ReceiveBroken(c)
    \/ \E c \in Conns : Put(c)
    \/ Get
    \/ Timeout
    \/ Tick
    \/ \E i \in 1..Len(tasks) : SinkOk(i)

\* strong fairness of Get, written out with its enabling condition CanGet:
\* SF_vars(Get) is  <>[] ~ENABLED <<Get>>_vars \/ []<> <<Get>>_vars, and a Get
\* step always changes queue or putWait
SFGet == <>[](~CanGet) \/ []<><<Get>>_vars

\* weak fairness of Timeout, written out with its enabling condition
\* CanTimeout: WF_vars(Timeout) is  []<> ~ENABLED <<Timeout>>_vars \/
\* []<> <<Timeout>>_vars, and a Timeout step always resets elapsed
WFTimeout == []<>(~CanTimeout) \/ []<><<Timeout>>_vars

FairSpec ==
    /\ Init
    /\ [][NextHealthy]_vars
    /\ \A c \in Conns : WF_vars(Put(c))
    /\ WFTimeout
    /\ SFGet

\* The pipeline with streams that may be slow to close; the grace period of
\* move_on_after(30) ends
NextClosing ==
    \/ NextHealthy
    \/ \E c \in Conns : GraceExpires(c)

SpecClosing ==
    /\ InitClosing
    /\ [][NextClosing]_vars
    /\ \A c \in Conns : WF_vars(GraceExpires(c))

(***************************************************************************)
(* The sending side on its own: the peers send whole well-formed lines, so *)
(* no handler ends the server, and the sink does what it likes.            *)
(***************************************************************************)
\* every event takes a line of a token, a character and a terminator
MaxTasks == MaxBytes \div (Len(Token) + 2)

GoodChunks(c) ==
    { d \in Chunks(c) : Len(d) = Len(Token) + 2 /\ recieve_data(<<>>, d).results # <<>> }

NextSending ==
    \/ \E c \in Conns : Accept(c)
    \/ \E c \in Conns : \E data \in GoodChunks(c) : Receive(c, data)
    \/ \E c \in Conns : Put(c)
    \/ Get
    \/ Timeout
    \/ Tick
    \/ \E i \in 1..Len(tasks) : SinkOk(i)
    \/ \E i \in 1..Len(tasks), e \in SinkErrors : SinkFail(i, e)
    \/ \E i \in 1..Len(tasks) : Wake(i)

\* with trio.fail_after(api_timeout): await bq.insert_all(...) is over, by an
\* answer, by an exception, or by the deadline (TooSlowError)
AttemptEnds(i) == SinkOk(i) \/ \E e \in SinkErrors : SinkFail(i, e)

InState(i, st) == ~cancelled /\ i <= Len(tasks) /\ tasks[i].state = st

\* weak fairness of AttemptEnds(i) and of Wake(i), written out with their
\* enabling conditions: fail_after ends every attempt within api_timeout, and
\* the sleep between two attempts lasts at most retry_max_wait
WFAttemptEnds(i) == []<>(~InState(i, "attempt")) \/ []<><<AttemptEnds(i)>>_vars

WFWake(i) == []<>(~InState(i, "sleep")) \/ []<><<Wake(i)>>_vars

FairSendSpec ==
    /\ Init
    /\ [][NextSending]_vars
    /\ \A i \in 1..MaxTasks : WFAttemptEnds(i) /\ WFWake(i)

\* The same with the scheduling of the pipeline only, and time passing: the
\* sink need not answer, and a send task need not end
FairDrainSpec ==
    /\ Init
    /\ [][NextSending]_vars
    /\ WF_vars(Tick)
    /\ \A c \in Conns : WF_vars(Put(c))
    /\ WFTimeout
    /\ SFGet

(***************************************************************************)
(* compute_batches on its own: a collection of events is gathered, the     *)
(* first from any day of the calendar, the others from a few days that     *)
(* share a day, a month, a day of month or a day of year with one another, *)
(* and compute_batches is run over it.                                     *)
(***************************************************************************)
FirstEvents ==
    { [kind |-> "Download", timestamp |-> Timestamp(d, 0), body |-> "a"] : d \in Dates }

OtherEvents ==
    { [kind |-> "Download", timestamp |-> [y |-> 2019, m |-> 1, d |-> 15, h |-> 23], body |-> "b"],
      [kind |-> "Download", timestamp |-> [y |-> 2019, m |-> 11, d |-> 5, h |-> 0], body |-> "a"],
      [kind |-> "Download", timestamp |-> [y |-> 2020, m |-> 1, d |-> 15, h |-> 0], body |-> "a"],
      [kind |-> "Download", timestamp |-> [y |-> 2019, m |-> 1, d |-> 16, h |-> 0], body |-> "a"] }

Collect(e) ==
    /\ batches = <<>>
    /\ Len(all_items) < MaxItems
    /\ all_items' = Append(all_items, e)
    /\ UNCHANGED <<hvars, qvars, dvars, cancelled, batches, evars>>

Compute ==
    /\ batches = <<>>
    /\ all_items # <<>>
    /\ batches' = compute_batches(all_items, 1)
    /\ UNCHANGED <<hvars, qvars, dvars, cancelled, all_items, evars>>

NextBatches ==
    \/ all_items = <<>> /\ \E e \in FirstEvents : Collect(e)
    \/ all_items # <<>> /\ \E e \in OtherEvents : Collect(e)
    \/ Compute

SpecBatches == Init /\ [][NextBatches]_vars

(***************************************************************************)
(* Properties of compute_batches.                                          *)
(***************************************************************************)
Computed == batches # <<>>

Positions == { <<g, r>> \in (1..Len(batches)) \X (1..MaxItems) : r <= Len(batches[g][2]) }

\* C6: compute_batches is an exact partition of its input: one (key, batch)
\* pair per distinct key present, as many records as events, and every event
\* as often in the batch of its own key as it is in the input, and in no other
C6_ExactPartition ==
    Computed =>
        /\ \A g, h \in 1..Len(batches) : batches[g][1] = batches[h][1] => g = h
        /\ { batches[g][1] : g \in 1..Len(batches) }
               = { extract_item_date(all_items[n]) : n \in 1..Len(all_items) }
        /\ \A g \in 1..Len(batches) : Len(batches[g][2]) >= 1
        /\ Cardinality(Positions) = Len(all_items)
        /\ \A n \in 1..Len(all_items) :
               LET e == all_items[n]
                   same == { k \in 1..Len(all_items) : all_items[k] = e }
                   held == { p \in Positions : batches[p[1]][2][p[2]].json = Unstructure(e) }
               IN  /\ Cardinality(held) = Cardinality(same)
                   /\ \A p \in held : batches[p[1]][1] = extract_item_date(e)

C6_Witness ==
    /\ Computed
    /\ Len(all_items) = 3
    /\ Len(batches) = 2
    /\ \E g \in 1..Len(batches) : Len(batches[g][2]) = 2
    /\ extract_item_date(all_items[1]) = extract_item_date(all_items[3])
    /\ extract_item_date(all_items[1]) # extract_item_date(all_items[2])

SameDay(e, f) == DateOf(e.timestamp) = DateOf(f.timestamp)

SameBatch(e, f) ==
    \E g \in 1..Len(batches) :
        /\ \E r \in 1..Len(batches[g][2]) : batches[g][2][r].json = Unstructure(e)
        /\ \E r \in 1..Len(batches[g][2]) : batches[g][2][r].json = Unstructure(f)

\* C7: the partition key buckets by calendar day: two events of the same day
\* have the same key and land in the same batch, two events of different days
\* (of one month, of different months, of different years) have different keys
\* and land in different batches; and the key of a day is the key of no other
\* day of the calendar
C7_KeyIsCalendarDay ==
    /\ \A i \in 1..Len(all_items) : \A j \in i..Len(all_items) :
           /\ SameDay(all_items[i], all_items[j])
                 <=> extract_item_date(all_items[i]) = extract_item_date(all_items[j])
           /\ Computed => (SameDay(all_items[i], all_items[j])
                              <=> SameBatch(all_items[i], all_items[j]))
    /\ Len(all_items) = 1 /\ ~Computed =>
           \A d \in Dates :
               extract_item_date([timestamp |-> Timestamp(d, 23)])
                   = extract_item_date(all_items[1]) => d = DateOf(all_items[1].timestamp)

C7_Witness ==
    /\ Computed
    /\ \E i, j, k \in 1..Len(all_items) :
           /\ all_items[i].timestamp.h # all_items[j].timestamp.h
           /\ SameDay(all_items[i], all_items[j])
           /\ SameBatch(all_items[i], all_items[j])
           /\ all_items[k].timestamp.y # all_items[i].timestamp.y
           /\ all_items[k].timestamp.m = all_items[i].timestamp.m
           /\ all_items[k].timestamp.d = all_items[i].timestamp.d
           /\ ~SameBatch(all_items[i], all_items[k])

(***************************************************************************)
(* Properties of the pipeline.                                             *)
(***************************************************************************)
RECURSIVE PendingIn(_)
PendingIn(S) ==
    IF S = {} THEN 0
    ELSE LET c == CHOOSE x \in S : TRUE IN Len(pend[c]) + PendingIn(S \ {c})

\* the events sender has taken from the queue so far
EventsTaken == nextId - 1 + Len(batch)

\* the events decoded so far: taken, in the queue, or still to be put
EventsIn == EventsTaken + Len(queue) + PendingIn(Conns)

Putting(c) == hpc[c] \in {"put", "putwait"}

Parked(c) == hpc[c] = "putwait"

C1_QueueBounded ==
    /\ Len(queue) <= QSize
    /\ \A c \in Conns :
           Parked(c) =>
               /\ Len(queue) = QSize
               /\ Cardinality({ k \in 1..Len(putWait) : putWait[k].conn = c }) = 1
               /\ \A k \in 1..Len(putWait) :
                      putWait[k].conn = c => putWait[k].val = Head(pend[c])

C1_NeverDropped ==
    \A c \in Conns :
        Putting(c) /\ ~cancelled' =>
            \/ Putting(c)' /\ pend'[c] = pend[c]
            \/ /\ pend'[c] = Tail(pend[c])
               /\ queue' # <<>>
               /\ queue'[Len(queue')] = Head(pend[c])

C1_ParkedUntilDequeue ==
    \A c \in Conns :
        Parked(c) /\ ~Parked(c)' /\ ~cancelled' => EventsTaken' = EventsTaken + 1

\* C1: the queue never holds more than qsize items; a handler that puts to a
\* full queue is parked, its event kept, until sender takes an item, and then
\* its event is in the queue; and as long as the nursery is not cancelled every
\* event decoded is in the end taken by sender
C1_Backpressure ==
    /\ []C1_QueueBounded
    /\ [][C1_NeverDropped /\ C1_ParkedUntilDequeue]_vars
    /\ \A n \in 1..3 : (EventsIn >= n) ~> (EventsTaken >= n \/ cancelled)

C1_Witness ==
    /\ hpc["c2"] = "putwait"
    /\ queue = <<Download("a")>>
    /\ pend["c2"] = <<Download("c")>>
    /\ EventsTaken = 0
    /\ Len(queue) = QSize

\* what decoding a line can raise
DecodeErrors == {"UnicodeDecodeError", "ValueError"}

\* C2: a framed line that fails decoding is dropped and nothing else happens:
\* no handler leaves its receive loop, by return or by exception, because a
\* line could not be decoded
C2_DecodeFailureDropsLineOnly ==
    \A c \in Conns : exit[c] \notin DecodeErrors

\* C3: whatever the peers send, no handler raises past handle_connection, so
\* the server's nursery is never cancelled by a handler
C3_NurseryNeverCancelledByHandler ==
    ~(cancelled /\ \E c \in Conns : hpc[c] = "raised")

\* C4: everything a handler has to put, has put, or is parked with, and
\* everything sender has taken and handed to compute_batches, is a decoded
\* event with a timestamp: a line parse_line returns None for leaves nothing
C4_OnlyEventsQueued ==
    /\ \A k \in 1..Len(queue) : IsEvent(queue[k])
    /\ \A k \in 1..Len(putWait) : IsEvent(putWait[k].val)
    /\ \A c \in Conns : \A k \in 1..Len(pend[c]) : IsEvent(pend[c][k])
    /\ \A k \in 1..Len(batch) : IsEvent(batch[k])
    /\ \A i \in 1..Len(tasks) : \A r \in 1..Len(tasks[i].batch) :
           "timestamp" \in DOMAIN tasks[i].batch[r].json

\* c1 has received two whole lines and only one event came of them
C4_Witness ==
    /\ ~cancelled
    /\ hpc["c2"] = "none"
    /\ exit["c1"] = "none"
    /\ buffer["c1"] = <<>>
    /\ nbytes = 2 * (Len(Token) + 2)
    /\ EventsIn = 1
    /\ Len(queue) = 1

FramingDropped(c) == exit[c] \in {"oversized", "truncated"}

C5_Stopped ==
    \A c \in Conns :
        FramingDropped(c) =>
            /\ hpc[c] = "done"
            /\ closes[c] = 1
            /\ pend[c] = <<>>
            /\ \A k \in 1..Len(putWait) : putWait[k].conn # c

C5_OversizedOnly ==
    \A c \in Conns :
        (/\ exit[c] = "oversized"
         /\ nbytes = MaxLineSize + 1
         /\ \A k \in Conns \ {c} : hpc[k] = "none")
            => EventsIn = 0 /\ tasks = <<>>

C5_NothingFurther ==
    \A c \in Conns :
        /\ ~FramingDropped(c) /\ FramingDropped(c)' =>
               /\ EventsIn' = EventsIn
               /\ queue' = queue
        /\ FramingDropped(c) =>
               /\ hpc'[c] = hpc[c]
               /\ exit'[c] = exit[c]
               /\ closes'[c] = closes[c]
               /\ buffer'[c] = buffer[c]
               /\ pend'[c] = pend[c]

\* C5: on BufferTooLargeError or TruncatedLineError the handler is done at
\* once: in that step it puts nothing, its stream is closed once, and from
\* then on it receives nothing and puts nothing; a connection that sent an
\* oversized unterminated line and nothing else leaves no event anywhere
C5_FramingErrorEndsConnection ==
    /\ [](C5_Stopped /\ C5_OversizedOnly)
    /\ [][C5_NothingFurther]_vars

C5_Witness ==
    /\ exit["c1"] = "oversized"
    /\ hpc["c1"] = "done"
    /\ closes["c1"] = 1
    /\ nbytes = MaxLineSize + 1
    /\ hpc["c2"] = "none"
    /\ queue = <<>>

\* a step that ends an accumulation
CycleEnds == nextId' # nextId \/ elapsed' < elapsed \/ lastCause' # lastCause

C8_Bounded ==
    /\ Len(batch) < BatchSize
    /\ elapsed <= BatchTimeout
    /\ \A i \in 1..Len(tasks) : Len(tasks[i].batch) <= BatchSize

C8_EndsFull ==
    /\ lastCause' = "full"
    /\ Len(batch) + 1 = BatchSize
    /\ elapsed < BatchTimeout
    /\ nextId' = nextId + BatchSize

C8_EndsTimeout ==
    /\ lastCause' = "timeout"
    /\ Len(batch) < BatchSize
    /\ elapsed = BatchTimeout
    /\ nextId' = nextId + Len(batch)

C8_Cycle ==
    /\ CycleEnds =>
           /\ C8_EndsFull \/ C8_EndsTimeout
           /\ batch' = <<>>
           /\ elapsed' = 0
    /\ ~CycleEnds /\ batch' # batch =>
           /\ elapsed < BatchTimeout
           /\ batch' = Append(batch, batch'[Len(batch')])
           /\ Len(batch') < BatchSize

\* C8: an accumulation ends in the step that dequeues its batch_size-th event,
\* before the timeout, or at the timeout with fewer than batch_size events;
\* until then it only grows, one dequeued event at a time, and what is
\* accumulated and what is sent never exceeds batch_size events
C8_AccumulationBounded ==
    /\ []C8_Bounded
    /\ [][C8_Cycle]_vars

\* a full accumulation and then one ended by the timeout with an event in it
C8_Witness ==
    /\ lastCause = "timeout"
    /\ Len(tasks) >= 2
    /\ \E i \in 1..Len(tasks) : Len(tasks[i].batch) = BatchSize
    /\ Len(tasks[Len(tasks)].batch) < BatchSize

\* the failures the claims call transient: per-attempt timeout, broken stream
Transient == {"TooSlowError", "BrokenStreamError"}

\* the records (task, position) that carry identifier id
Carriers(id) ==
    { p \in (1..Len(tasks)) \X (1..BatchSize) :
        p[2] <= Len(tasks[p[1]].batch) /\ tasks[p[1]].batch[p[2]].insertId = id }

C9_Delivered ==
    /\ \A i \in 1..Len(tasks) :
           /\ tasks[i].state # "raised"
           /\ tasks[i].oks <= 1
           /\ tasks[i].oks = 1 <=> tasks[i].state = "sent"
           /\ tasks[i].state = "sent" =>
                  /\ tasks[i].attempts = tasks[i].fails + 1
                  /\ tasks[i].fails < RetryMaxAttempts
           /\ tasks[i].state = "dropped" /\ tasks[i].exc \in Transient =>
                  tasks[i].fails >= RetryMaxAttempts
    /\ \A id \in 1..(nextId - 1) : Cardinality(Carriers(id)) = 1

C9_Settled ==
    /\ Len(tasks') >= Len(tasks)
    /\ \A i \in 1..Len(tasks) :
           /\ tasks'[i].batch = tasks[i].batch
           /\ tasks[i].state = "sent" => tasks'[i] = tasks[i]
           /\ tasks[i].state = "attempt" /\ tasks'[i].fails # tasks[i].fails
                  /\ tasks'[i].exc \in Transient \cup {"none"}
                  /\ tasks[i].fails + 1 < RetryMaxAttempts =>
                  tasks'[i].state = "sleep"

\* C9: a send task whose insert fails transiently k < retry_max_attempts
\* times and then succeeds has made k + 1 attempts, one of them successful,
\* and stays as it is from then on; transient failures drop no batch while
\* attempts are left; and every event dispatched is in the batch of exactly
\* one send task
C9_OneDeliveryAfterRetries ==
    /\ []C9_Delivered
    /\ [][C9_Settled]_vars

C9_Witness ==
    \E i \in 1..Len(tasks) :
        /\ tasks[i].state = "sent"
        /\ tasks[i].fails >= 1
        /\ tasks[i].attempts = tasks[i].fails + 1
        /\ tasks[i].oks = 1

\* C10 as stated: a batch is dropped after retry_max_attempts attempts, never
\* sooner, and no failure of the sink leaves send_batch
C10_DroppedAfterAllAttempts ==
    \A i \in 1..Len(tasks) :
        /\ tasks[i].state # "raised"
        /\ tasks[i].state = "dropped" => tasks[i].attempts = RetryMaxAttempts

C10_Dropped ==
    \A i \in 1..Len(tasks) :
        /\ tasks[i].state # "raised"
        /\ tasks[i].attempts <= RetryMaxAttempts
        /\ tasks[i].state = "dropped" =>
               /\ tasks[i].oks = 0
               /\ tasks[i].fails = tasks[i].attempts
               /\ tasks[i].exc \in Transient => tasks[i].attempts = RetryMaxAttempts

C10_ReturnsNormally ==
    nfails' # nfails =>
        /\ cancelled' = cancelled
        /\ dpc' = dpc
        /\ <<hvars, qvars, batch, nextId>>' = <<hvars, qvars, batch, nextId>>
        /\ \A i \in 1..Len(tasks) :
               tasks'[i] # tasks[i] =>
                   /\ tasks[i].state = "attempt"
                   /\ tasks'[i].state \in {"sleep", "dropped"}
                   /\ \A k \in 1..Len(tasks) : k # i => tasks'[k] = tasks[k]

\* C10, amended: a batch whose every attempt ends in a timeout or a broken
\* stream is dropped after exactly retry_max_attempts attempts; a failure of
\* another kind drops it at that attempt; no task makes more than
\* retry_max_attempts attempts, and a failing attempt changes nothing but its
\* own task
C10_DroppedAfterRetriedAttempts ==
    /\ []C10_Dropped
    /\ [][C10_ReturnsNormally]_vars

C10_Witness ==
    /\ ~cancelled
    /\ dpc = "accum"
    /\ \E i \in 1..Len(tasks) :
           /\ tasks[i].state = "dropped"
           /\ tasks[i].exc \in Transient
           /\ tasks[i].attempts = RetryMaxAttempts
           /\ tasks[i].fails = RetryMaxAttempts

\* a failure that is neither a timeout nor a broken stream
Unexpected(e) == e \in SinkErrors \ Transient

C11_Discarded ==
    \A i \in 1..Len(tasks) :
        /\ tasks[i].state = "raised" => tasks[i].exc \notin SinkErrors
        /\ tasks[i].exc \in SinkErrors => tasks[i].state = "dropped" /\ tasks[i].oks = 0

C11_Contained ==
    \A i \in 1..Len(tasks) :
        tasks[i].exc = "none" /\ Unexpected(tasks'[i].exc) =>
            /\ tasks'[i].state = "dropped"
            /\ tasks'[i].attempts = tasks[i].attempts
            /\ ~cancelled' /\ dpc' = "accum"
            /\ <<batch, elapsed, nextId, queue, putWait, hpc>>'
                   = <<batch, elapsed, nextId, queue, putWait, hpc>>
            /\ \A k \in 1..Len(tasks) : k # i => tasks'[k] = tasks[k]

\* C11: an attempt that fails otherwise than by a timeout or a broken stream
\* ends its task with the batch discarded, at that attempt; no failure of the
\* sink ever leaves a send task, and the step changes nothing of sender, of
\* the queue, of the handlers or of the other send tasks
C11_UnexpectedFailureSwallowed ==
    /\ []C11_Discarded
    /\ [][C11_Contained]_vars

\* a batch was discarded on an unexpected failure while another send task is
\* still at work, and sender accumulates
C11_Witness ==
    /\ ~cancelled
    /\ dpc = "accum"
    /\ \E i, k \in 1..Len(tasks) :
           /\ tasks[i].state = "dropped"
           /\ Unexpected(tasks[i].exc)
           /\ tasks[k].state \in {"attempt", "sleep"}

\* the states a send task ends in
Final == {"sent", "dropped", "cancelled", "raised"}

C12_AttemptsBounded ==
    /\ Len(tasks) <= MaxTasks
    /\ \A i \in 1..Len(tasks) :
           /\ tasks[i].attempts <= RetryMaxAttempts
           /\ tasks[i].fails <= RetryMaxAttempts
           /\ tasks[i].state = "sleep" => tasks[i].attempts < RetryMaxAttempts

C12_NoWayBack ==
    \A i \in 1..Len(tasks) :
        /\ tasks[i].state \in Final => tasks'[i] = tasks[i]
        /\ tasks'[i] # tasks[i] => queue' = queue /\ putWait' = putWait

\* C12: a send task makes at most retry_max_attempts attempts, sleeps only
\* when an attempt is left, puts nothing back on the queue, stays ended once
\* it has ended, and, every attempt and every sleep being finite, it ends
C12_SendTerminates ==
    /\ []C12_AttemptsBounded
    /\ [][C12_NoWayBack]_vars
    /\ \A i \in 1..MaxTasks :
           (i <= Len(tasks)) ~> (i <= Len(tasks) /\ tasks[i].state \in Final)

\* a task that failed on every call and a task the sink answered have ended
C12_Witness ==
    \E i, k \in 1..Len(tasks) :
        /\ tasks[i].state = "dropped"
        /\ tasks[i].fails = RetryMaxAttempts
        /\ tasks[i].exc = "TooSlowError"
        /\ tasks[k].state = "sent"

\* the records of the send tasks started by this step
NewRecords ==
    { p \in ((Len(tasks) + 1)..Len(tasks')) \X (1..BatchSize) : p[2] <= Len(tasks'[p[1]].batch) }

\* the send tasks started by this step hold the events of b, each as often as
\* b does, and nothing else
HandedOver(b) ==
    /\ Cardinality(NewRecords) = Len(b)
    /\ \A n \in 1..Len(b) :
           Cardinality({ p \in NewRecords : tasks'[p[1]].batch[p[2]].json = Unstructure(b[n]) })
               = Cardinality({ k \in 1..Len(b) : b[k] = b[n] })

\* what q.get() returns next
NextOut == IF queue # <<>> THEN Head(queue) ELSE putWait[1].val

C13_Accounted ==
    /\ Cardinality(UNION { Carriers(id) : id \in 1..(nextId - 1) }) = nextId - 1
    /\ \A i \in 1..Len(tasks) : \A r \in 1..Len(tasks[i].batch) :
           tasks[i].batch[r].insertId \in 1..(nextId - 1)

C13_Step ==
    IF cancelled' THEN batch' = batch /\ Len(tasks') = Len(tasks)
    ELSE IF Len(queue') + Len(putWait') < Len(queue) + Len(putWait)
    THEN \/ batch' = Append(batch, NextOut) /\ Len(tasks') = Len(tasks)
         \/ batch' = <<>> /\ HandedOver(Append(batch, NextOut))
    ELSE IF elapsed' < elapsed
    THEN batch' = <<>> /\ HandedOver(batch)
    ELSE batch' = batch /\ Len(tasks') = Len(tasks)

\* C13: an event taken from the queue is appended to the accumulation or, when
\* it completes it, handed to compute_batches in that step; an accumulation
\* ended by the deadline is handed over whole; the next accumulation starts
\* empty; and the records of the send tasks are the events taken, one each
C13_DequeuedIsDispatched ==
    /\ []C13_Accounted
    /\ [][C13_Step]_vars

\* the deadline ended an accumulation of one event, which a send task holds
C13_Witness ==
    /\ lastCause = "timeout"
    /\ batch = <<>>
    /\ nextId = 2
    /\ Len(tasks) = 1
    /\ Len(tasks[1].batch) = 1
    /\ tasks[1].batch[1].json = Unstructure(Download("c"))

InFlight(i) == tasks[i].state \in {"attempt", "sleep"}

\* the events handed to send tasks so far
EventsDispatched == nextId - 1

C14_NeverWaits ==
    ~cancelled =>
        /\ dpc = "accum"
        /\ (queue # <<>> \/ putWait # <<>>) /\ ~DeadlinePassed(elapsed) => CanGet
        /\ DeadlinePassed(elapsed) => CanTimeout

C14_StartsAndGoesOn ==
    Len(tasks') > Len(tasks) =>
        /\ batch' = <<>> /\ elapsed' = 0 /\ dpc' = "accum"
        /\ \A i \in 1..Len(tasks) : tasks'[i] = tasks[i]
        /\ \A i \in (Len(tasks) + 1)..Len(tasks') :
               tasks'[i].state = "attempt" /\ tasks'[i].attempts = 1

\* C14: the step that starts the send tasks of a cycle starts the next
\* accumulation; whatever the send tasks in flight do, sender takes from the
\* queue whenever it holds something and acts on the deadline; so every event
\* decoded is in the end handed to a send task, even if no send ever ends
C14_SenderDoesNotWaitForSends ==
    /\ []C14_NeverWaits
    /\ [][C14_StartsAndGoesOn]_vars
    /\ \A n \in 1..MaxTasks : (EventsIn >= n) ~> (EventsDispatched >= n)

\* the first send has had no answer and a later cycle has started its own
C14_Witness ==
    /\ Len(tasks) >= 2
    /\ tasks[1].state = "attempt"
    /\ tasks[1].attempts = 1
    /\ tasks[1].fails = 0
    /\ tasks[2].key = tasks[1].key
    /\ batch # <<>>

\* the records of all send tasks, by task and position
Records == { p \in (1..Len(tasks)) \X (1..BatchSize) : p[2] <= Len(tasks[p[1]].batch) }

C15_Distinct ==
    \A p, q \in Records :
        tasks[p[1]].batch[p[2]].insertId = tasks[q[1]].batch[q[2]].insertId => p = q

C15_SameRecords ==
    \A i \in 1..Len(tasks) :
        /\ tasks'[i].key = tasks[i].key
        /\ tasks'[i].batch = tasks[i].batch
        /\ tasks'[i].attempts # tasks[i].attempts =>
               /\ tasks'[i].attempts = tasks[i].attempts + 1
               /\ tasks'[i].state = "attempt"
               /\ nextId' = nextId

\* C15: the key and the records of a send task, identifiers included, are
\* those compute_batches built when the task was started, at every attempt;
\* a new attempt draws no identifier; and no identifier is on two records,
\* of one batch or of two
C15_RecordsBuiltOnce ==
    /\ []C15_Distinct
    /\ [][C15_SameRecords]_vars

\* a batch of two records in its second attempt, and another batch
C15_Witness ==
    /\ Len(tasks) >= 2
    /\ \E i \in 1..Len(tasks) :
           /\ tasks[i].state = "attempt"
           /\ tasks[i].attempts = 2
           /\ Len(tasks[i].batch) = 2
           /\ tasks[i].batch[1].insertId # tasks[i].batch[2].insertId

\* the events held by the first n send tasks that are in flight
RECURSIVE HeldBySends(_)
HeldBySends(n) ==
    IF n = 0 THEN 0
    ELSE HeldBySends(n - 1) + (IF InFlight(n) THEN Len(tasks[n].batch) ELSE 0)

InFlightSends == Cardinality({ i \in 1..Len(tasks) : InFlight(i) })

\* the events in the queue, in the accumulation and in the send tasks in flight
EventsHeld == Len(queue) + Len(batch) + HeldBySends(Len(tasks))

\* C16: the events held, in the queue, in sender's accumulation and in the
\* send tasks in flight, are at most qsize + in-flight send tasks * batch_size
C16_HeldBounded ==
    EventsHeld <= QSize + InFlightSends * BatchSize

\* the connection an event came in by: the peers send different contents
Origin(e) == IF e.body = "c" THEN "c2" ELSE "c1"

RECURSIVE From(_, _)
From(c, q) ==
    IF q = <<>> THEN <<>>
    ELSE IF Origin(Head(q)) = c THEN <<Head(q)>> \o From(c, Tail(q))
    ELSE From(c, Tail(q))

\* the events of connection c on their way to sender, first in first: those
\* in queue q and then those its handler has still to put, p
Stream(c, q, p) == From(c, q) \o p

RECURSIVE IsSubseq(_, _)
IsSubseq(a, b) ==
    IF a = <<>> THEN TRUE
    ELSE IF b = <<>> THEN FALSE
    ELSE IF Head(a) = Head(b) THEN IsSubseq(Tail(a), Tail(b))
    ELSE IsSubseq(a, Tail(b))

Bodies(events) == [k \in 1..Len(events) |-> events[k].body]

\* what a chunk yields is in the order of its lines
C17_FramedInOrder ==
    \A c \in { k \in Conns : hpc[k] = "recv" /\ ~cancelled } : \A data \in Chunks(c) :
        LET r == recieve_data(buffer[c], data)
        IN  /\ IsSubseq(Bodies(r.results), buffer[c] \o data)
            /\ \A k \in 1..Len(r.results) : Origin(r.results[k]) = c

C17_StreamIsFifo ==
    \A c \in Conns :
        LET now == Stream(c, queue, pend[c])
            next == Stream(c, queue', pend'[c])
        IN  \/ next = now
            \/ /\ pend[c] = <<>>
               /\ hpc[c] = "recv"
               /\ next = now \o pend'[c]
            \/ /\ now # <<>>
               /\ next = Tail(now)
               /\ NextOut = Head(now)
               /\ \/ batch' = Append(batch, Head(now))
                  \/ batch' = <<>> /\ HandedOver(Append(batch, Head(now)))

Left(c) == hpc[c] \in {"closing", "done", "raised"}

\* the ways out of the loop of handle_connection
ExitPaths ==
    {"eof", "oversized", "truncated", "cancelled"} \cup DecodeErrors

\* aclose() was called once by a handler that left, and not by the others
C18_ClosedOnce ==
    \A c \in Conns :
        /\ closes[c] = IF Left(c) THEN 1 ELSE 0
        /\ Left(c) => exit[c] \in ExitPaths

\* a close that is going on ends in the handler's return: nothing is raised
\* from it, the stream is not closed again, and a handler that returned stays
\* returned
C18_Abandoned ==
    \A c \in Conns :
        /\ hpc[c] = "closing" /\ hpc'[c] # "closing"
            => /\ hpc'[c] = "done"
               /\ exit'[c] = exit[c]
               /\ closes'[c] = closes[c]
               /\ cancelled' /\ ~cancelled => \E k \in Conns \ {c} : hpc'[k] = "raised"
        /\ hpc[c] \in {"done", "raised"} => hpc'[c] = hpc[c] /\ closes'[c] = closes[c]

\* C18: however handle_connection leaves its loop, it calls the stream's close
\* once; a close still going on at the end of the grace period is given up
\* without an exception, and the handler ends
C18_ClosedOnceOnEveryExit ==
    /\ []C18_ClosedOnce
    /\ [][C18_Abandoned]_vars
    /\ \A c \in Conns : (hpc[c] = "closing") ~> (hpc[c] = "done")

\* c1, slow to close, broke off in the middle of a line: its close was given
\* up and it returned; c2 was cancelled while parked on the full queue
C18_Witness ==
    /\ "c1" \in slow
    /\ hpc["c1"] = "done"
    /\ exit["c1"] = "truncated"
    /\ closes["c1"] = 1
    /\ ~cancelled
    /\ hpc["c2"] = "putwait"

(***************************************************************************)
(* C19                                                                     *)
(***************************************************************************)
\* the step that ends a cycle by its deadline: only then is the clock of an
\* expired accumulation set back
CycleTimesOut == DeadlinePassed(elapsed) /\ elapsed' = 0

\* what the sink was asked to do so far
SinkCalls == [i \in 1..Len(tasks) |-> tasks[i].attempts]

\* compute_batches yields nothing for no items
C19_NoItemsNoBatches == \A n \in 0..MaxItems : compute_batches(<<>>, n) = <<>>

C19_EmptyCycle ==
    CycleTimesOut /\ batch = <<>>
        => /\ tasks' = tasks
           /\ SinkCalls' = SinkCalls
           /\ nextId' = nextId
           /\ dpc' = "accum"
           /\ batch' = <<>>
           /\ lastCause' = "timeout"
           /\ UNCHANGED <<queue, putWait>>

\* C19: when the deadline of a cycle passes with nothing accumulated, sender
\* starts no send task and nothing is sent; it is in the next cycle at once,
\* with an empty batch and a new deadline
C19_EmptyTimeoutDispatchesNothing ==
    /\ []C19_NoItemsNoBatches
    /\ [][C19_EmptyCycle]_vars

\* a cycle ran out with nothing accumulated while a connection was open, and
\* no send task has been started
C19_Witness ==
    /\ lastCause = "timeout"
    /\ tasks = <<>>
    /\ batch = <<>>
    /\ elapsed = 0
    /\ hpc["c1"] = "recv"
    /\ ~cancelled

(***************************************************************************)
(* C20                                                                     *)
(***************************************************************************)
\* the waits of a send task are those of its attempts so far, one after each
\* attempt but the one going on or ended last, and none before the first
C20_OneWaitBetweenAttempts ==
    \A i \in 1..Len(tasks) :
        LET t == tasks[i]
        IN  /\ t.attempts >= 1
            /\ Len(t.slept) = IF t.state = "sleep" THEN t.attempts ELSE t.attempts - 1
            /\ \A k \in 1..Len(t.slept) :
                    t.slept[k] = wait_exponential(k) /\ t.slept[k] <= RetryMaxWait

\* an attempt after the first starts at the end of a wait, and a wait after a
\* failed attempt
C20_AttemptAfterWait ==
    \A i \in 1..Len(tasks) :
        /\ tasks'[i].attempts # tasks[i].attempts
            => /\ tasks[i].state = "sleep"
               /\ tasks'[i].state = "attempt"
               /\ tasks'[i].attempts = tasks[i].attempts + 1
               /\ tasks'[i].slept = tasks[i].slept
        /\ tasks'[i].slept # tasks[i].slept
            => /\ tasks[i].state = "attempt"
               /\ tasks'[i].state = "sleep"
               /\ tasks'[i].fails = tasks[i].fails + 1

\* the waits double from one attempt to the next, from twice the multiplier
\* on, until the cap, and are never above it
C20_ExponentialCapped ==
    \A n \in 1..MaxAttemptNumber :
        /\ wait_exponential(n) <= RetryMaxWait
        /\ wait_exponential(n) >= Min(RetryMaxWait, RetryMultiplier)
        /\ wait_exponential(n + 1) = Min(RetryMaxWait, 2 * wait_exponential(n))
        /\ wait_exponential(n) < RetryMaxWait
            => wait_exponential(n) = RetryMultiplier * Pow2(n)

====
